---------------------------- MODULE Spec2Model ----------------------------
(***************************************************************************)
(* LinkPepper (backend/core): the wallet login flow (api_nonce, api_verify, *)
(* api_logout over WalletUser rows and Django sessions) and the staff      *)
(* review / payout operations over Submission and Payout rows.             *)
(*                                                                         *)
(* Every HTTP request is handled by one worker; workers run concurrently   *)
(* and share only the database (settings.py: sqlite, autocommit, no        *)
(* ATOMIC_REQUESTS).  A handler that issues several statements is modelled *)
(* as one step per statement (or per transaction), so that the statements  *)
(* of two requests interleave.                                             *)
(***************************************************************************)
EXTENDS Integers, Sequences, FiniteSets, TLC

VARIABLES
    submissions,    \* Submission table: id -> row
    payouts,        \* Payout table: submission id -> number of Payout rows
                    \* whose submission is that row
    admin,          \* admin worker -> the multi-statement staff request it
                    \* runs, or the response of the last one it ran
    walletUsers,    \* WalletUser table: a set of rows
    sessions,       \* django_session table: session key -> the
                    \* wallet_user_id it stores (0: the key is absent)
    tokens,         \* how many tokens secrets.token_urlsafe has handed out
    req,            \* web worker -> the request it handles, or the response
                    \* of the last one it handled
    campaigns,      \* Campaign table: slug -> row
    submitted,      \* the Submission rows submit_link and submit_visit
                    \* inserted, in the order of their ids
    submitReq,      \* web worker -> the submission request it handles, or
                    \* the response of the last one it handled
    langSession,    \* the "lang" key of the browser's session ("": absent)
    langReq         \* the page request of the browser on its way through
                    \* LanguageRoutingMiddleware, or its response

reviewVars == <<submissions, payouts, admin>>

authVars == <<walletUsers, sessions, tokens, req>>

submitVars == <<campaigns, submitted, submitReq>>

langVars == <<langSession, langReq>>

vars ==
    <<submissions, payouts, admin, walletUsers, sessions, tokens, req,
      campaigns, submitted, submitReq, langSession, langReq>>

-----------------------------------------------------------------------------
(* Bounds *)

MaxSubs == 1

SubIds == 1..MaxSubs

\* The workers that serve staff requests of several statements concurrently.
\* A staff request of one statement (or one transaction) is one step and needs
\* no worker state.
AdminWorkers == {"a1", "a2"}

-----------------------------------------------------------------------------
(* models.py *)

PENDING == "PENDING"
APPROVED == "APPROVED"
REJECTED == "REJECTED"
PAID == "PAID"

SubmissionStatus == {PENDING, APPROVED, REJECTED, PAID}

\* The Submission table is modelled by the two columns the review / payout
\* state machine consists of, status and is_paid.  The other columns the
\* operations below write (is_approved, reviewed_at, reviewed_by, proof_score,
\* reviewer_note) are read by none of them.
\* A Submission row as the submit handlers create it: status PENDING and the
\* BooleanField default.
NewSubmission == [status |-> PENDING, is_paid |-> FALSE]

\* Submission.mark_approved: status becomes APPROVED whatever it was; is_paid
\* is not among the update_fields.
mark_approved(sub) == [sub EXCEPT !.status = APPROVED]

\* Whether the Payout table holds a row for submission s (the reverse
\* one-to-one accessor s.payout, HasPayoutFilter's payout__isnull=False).
HasPayout(rows, s) == rows[s] > 0

\* Payout.submission is a OneToOneField and Meta.constraints holds
\* one_payout_per_submission: the database rejects the INSERT of a second row
\* for the same submission with IntegrityError.
NoUniqueConstraint(rows, s) == FALSE

UniqueViolation(rows, s) == HasPayout(rows, s)

\* The INSERT of Payout.objects.create / super().save(): the new table, or
\* the table unchanged when the constraint rejects the row.
InsertPayout(rows, s) ==
    IF UniqueViolation(rows, s) THEN rows
    ELSE [rows EXCEPT ![s] = @ + 1]

\* Payout.save() after super().save(): "not self.submission.is_paid or
\* self.submission.status != PAID" is evaluated on the Submission instance
\* the Payout object holds (inst, loaded earlier by the request, possibly
\* stale); the UPDATE is a queryset update by primary key on the current row.
PayoutSaveReflect(table, inst) ==
    IF ~inst.paid
    THEN [table EXCEPT ![inst.sub].is_paid = TRUE, ![inst.sub].status = PAID]
    ELSE table

-----------------------------------------------------------------------------
(* admin.py: the staff request in flight *)

\* queue: the selected queryset still to be processed, each entry the
\* Submission instance as it was loaded: its id, and of the columns it holds
\* the one fact the request reads from them later, whether the instance has
\* is_paid set and status PAID.  created: the action's counter.
AdminIdle ==
    [pc |-> "idle", queue |-> <<>>, created |-> 0, sub |-> 0, result |-> "none"]

\* The response of a request that ended on submission s: "ok" with the
\* number of payouts created, "form_error" (the add form is shown again with
\* a validation error), or "IntegrityError" (the exception is not caught: a
\* server error).
Response(s, result, created) ==
    [pc |-> "done", queue |-> <<>>, created |-> created, sub |-> s, result |-> result]

AdminFree(st) == admin[st].pc \in {"idle", "done"}

Loaded(table, s) ==
    [sub |-> s, paid |-> (table[s].is_paid /\ table[s].status = PAID)]

\* The selected rows in the queryset's order, loaded by one SELECT.
RECURSIVE LoadSelected(_, _)
LoadSelected(table, S) ==
    IF S = {} THEN <<>>
    ELSE LET m == CHOOSE x \in S : \A y \in S : y <= x
         IN <<Loaded(table, m)>> \o LoadSelected(table, S \ {m})

Selections == (SUBSET SubIds) \ {{}}

\* SubmissionAdmin.mark_approved: s.mark_approved(reviewer=request.user) for
\* every selected submission.
SubmissionAdmin_mark_approved(S) ==
    /\ submissions' = [s \in SubIds |->
                         IF s \in S THEN mark_approved(submissions[s])
                         ELSE submissions[s]]
    /\ UNCHANGED <<payouts, admin, authVars, submitVars, langVars>>

\* SubmissionAdmin.mark_rejected: one UPDATE over the selected rows.
mark_rejected(S) ==
    /\ submissions' = [s \in SubIds |->
                         IF s \in S
                         THEN [submissions[s] EXCEPT !.status = REJECTED]
                         ELSE submissions[s]]
    /\ UNCHANGED <<payouts, admin, authVars, submitVars, langVars>>

\* SubmissionAdmin.create_payouts_for_selected, statement by statement.
\* (1) the queryset is evaluated: the selected rows are loaded.
create_payouts_for_selected(st, S) ==
    /\ AdminFree(st)
    /\ admin' = [admin EXCEPT ![st] =
                   [pc |-> "cp_check", queue |-> LoadSelected(submissions, S),
                    created |-> 0, sub |-> 0, result |-> "none"]]
    /\ UNCHANGED <<submissions, payouts, authVars, submitVars, langVars>>

\* The loop moves to the next selected row, or the action ends with its
\* "Created n payout(s)" message.
NextSelected(r, created) ==
    IF Len(r.queue) = 1
    THEN Response(Head(r.queue).sub, "ok", created)
    ELSE [r EXCEPT !.pc = "cp_check", !.queue = Tail(r.queue), !.created = created]

\* (2) getattr(s, "payout", None): a query for the row's payout; a row that
\* has one is skipped.  (s.campaign is a non-null foreign key, so the
\* "if not s.campaign" branch is never taken.)
create_payouts_for_selected_check(st) ==
    /\ admin[st].pc = "cp_check"
    /\ admin' = [admin EXCEPT ![st] =
                   IF HasPayout(payouts, Head(@.queue).sub)
                   THEN NextSelected(@, @.created)
                   ELSE [@ EXCEPT !.pc = "cp_insert"]]
    /\ UNCHANGED <<submissions, payouts, authVars, submitVars, langVars>>

\* (3) Payout.objects.create: the IntegrityError of a rejected INSERT is not
\* caught and ends the request.
create_payouts_for_selected_insert(st) ==
    /\ admin[st].pc = "cp_insert"
    /\ LET s == Head(admin[st].queue).sub
       IN /\ payouts' = InsertPayout(payouts, s)
          /\ admin' = [admin EXCEPT ![st] =
                         IF payouts' = payouts
                         THEN Response(s, "IntegrityError", @.created)
                         ELSE [@ EXCEPT !.pc = "cp_save"]]
    /\ UNCHANGED <<submissions, authVars, submitVars, langVars>>

\* (4) the rest of Payout.save(): the submission is marked paid, and
\* created += 1.
create_payouts_for_selected_save(st) ==
    /\ admin[st].pc = "cp_save"
    /\ submissions' = PayoutSaveReflect(submissions, Head(admin[st].queue))
    /\ admin' = [admin EXCEPT ![st] = NextSelected(@, @.created + 1)]
    /\ UNCHANGED <<payouts, authVars, submitVars, langVars>>

\* PayoutAdmin's add form (and the PayoutInline of a submission), a direct
\* Payout creation.  (1) the form is validated: the submission is loaded and
\* validate_unique queries for an existing payout of it.
PayoutAdmin_add(st, s) ==
    /\ AdminFree(st)
    /\ admin' = [admin EXCEPT ![st] =
                   IF HasPayout(payouts, s)
                   THEN Response(s, "form_error", 0)
                   ELSE [pc |-> "pa_save", queue |-> <<Loaded(submissions, s)>>,
                         created |-> 0, sub |-> 0, result |-> "none"]]
    /\ UNCHANGED <<submissions, payouts, authVars, submitVars, langVars>>

\* (2) Payout.save() inside the change form's transaction: the INSERT and
\* the submission's UPDATE commit together, or the IntegrityError rolls back.
PayoutAdmin_add_save(st) ==
    /\ admin[st].pc = "pa_save"
    /\ LET cur == Head(admin[st].queue)
       IN /\ payouts' = InsertPayout(payouts, cur.sub)
          /\ IF payouts' = payouts
             THEN /\ admin' = [admin EXCEPT ![st] = Response(cur.sub, "IntegrityError", 0)]
                  /\ UNCHANGED submissions
             ELSE /\ admin' = [admin EXCEPT ![st] = Response(cur.sub, "ok", 1)]
                  /\ submissions' = PayoutSaveReflect(submissions, cur)
    /\ UNCHANGED <<authVars, submitVars, langVars>>

\* PayoutAdmin's delete view: one Payout row of submission s is deleted;
\* nothing touches the submission.
PayoutAdmin_delete(s) ==
    /\ HasPayout(payouts, s)
    /\ payouts' = [payouts EXCEPT ![s] = @ - 1]
    /\ UNCHANGED <<submissions, admin, authVars, submitVars, langVars>>

\* SubmissionAdmin's change form: status and is_paid are plain editable
\* fields of the first fieldset and are saved as posted.
SubmissionAdmin_change(s, status, is_paid) ==
    /\ submissions' = [submissions EXCEPT ![s] =
                         [status |-> status, is_paid |-> is_paid]]
    /\ UNCHANGED <<payouts, admin, authVars, submitVars, langVars>>

-----------------------------------------------------------------------------
(* views.py: wallet addresses, login messages, signatures *)

MaxTokens == 2

MaxTime == 1

\* The web workers that serve the wallet API concurrently, and the session
\* keys of the browsers that call it.
Workers == {"w1", "w2"}

SessionKeys == {"s1", "s2"}

AddressLength == 42

\* An address string: its 40 digits read case-insensitively (body), whether
\* its letters are all lower case or mixed (the checksum form wallets show),
\* its two prefix characters, its length without surrounding whitespace, and
\* whether whitespace surrounds it.
EvmAddress(body, case) ==
    [body |-> body, case |-> case, prefix |-> "0x", len |-> AddressLength,
     pad |-> FALSE]

\* A missing or empty address; also the None _normalize_evm_address returns.
None == [body |-> "", case |-> "lower", prefix |-> "", len |-> 0, pad |-> FALSE]

\* str.strip() and str.lower() on an address string.
address_strip(a) == [a EXCEPT !.pad = FALSE]

address_as_is(a) == a

address_lower(a) == [a EXCEPT !.case = "lower", !.prefix = "0x"]

_normalize_evm_address(addr) ==
    IF addr = None THEN None
    ELSE LET a == address_strip(addr)
         IN IF a.prefix = "0x" /\ a.len = AddressLength
            THEN address_lower(a)
            ELSE None

\* The private keys of the wallets, each named by the digits of its address:
\* the wallet that logs in, and a wallet that only ever signs.
Wallets == {"aa", "bb"}

\* The address strings clients ask a nonce for: the first wallet's address
\* in lower case, in checksum case with whitespace around it, cut short by
\* one character, with an upper-case prefix; and no address.
NonceAddresses ==
    {EvmAddress("aa", "lower"),
     [EvmAddress("aa", "mixed") EXCEPT !.pad = TRUE],
     [EvmAddress("aa", "lower") EXCEPT !.len = AddressLength - 1],
     [EvmAddress("aa", "lower") EXCEPT !.prefix = "0X"],
     None}

\* The address strings clients claim in api_verify: those, and the second
\* wallet's address.
RawAddresses == NonceAddresses \cup {EvmAddress("bb", "lower")}

\* The readings of the wall clock (timezone.now()).
Times == 1..MaxTime

\* secrets.token_urlsafe(24): the k-th token handed out; no two are equal and
\* none is empty.
token_urlsafe(k) == ToString(k)

\* A text is the sequence of its pieces; a piece is a run of characters
\* without whitespace at its ends, or one whitespace character.
Whitespace == {" ", "\t", "\n", "\r"}

RECURSIVE lstrip(_)
lstrip(m) ==
    IF m # <<>> /\ Head(m) \in Whitespace THEN lstrip(Tail(m)) ELSE m

RECURSIVE rstrip(_)
rstrip(m) ==
    IF m # <<>> /\ m[Len(m)] \in Whitespace
    THEN rstrip(SubSeq(m, 1, Len(m) - 1))
    ELSE m

\* str.strip() on a text.
strip(m) == rstrip(lstrip(m))

_login_message(nonce) ==
    <<"LinkHash login", "\n", "\n", "Nonce: ", nonce, "\n", "\n",
      "This signature proves you control this wallet.">>

\* The texts clients send as the message for token n: the canonical message,
\* the canonical message with whitespace before and after it, and the
\* canonical message with its line breaks sent as spaces.
Padded(m) == <<" ">> \o m \o <<"\n">>

Unwrapped(m) == [i \in 1..Len(m) |-> IF m[i] = "\n" THEN " " ELSE m[i]]

MessagesFor(n) ==
    {_login_message(n), Padded(_login_message(n)), Unwrapped(_login_message(n))}

\* The tokens clients can know: those handed out, but for the ones whose
\* api_nonce has not responded yet.
Issued ==
    {token_urlsafe(k) : k \in 1..tokens}
        \ {req[w].nonce : w \in {x \in DOMAIN req : req[x].pc = "nonce_save"}}

Messages == UNION {MessagesFor(n) : n \in Issued} \cup {<<>>, <<" ">>}

\* A signature string: the personal_sign signature of text msg by key, a
\* string that is no signature, or the empty string.
sign(key, msg) == [kind |-> "sig", key |-> key, msg |-> msg]

Malformed == [kind |-> "malformed", key |-> "", msg |-> <<>>]

NoSignature == [kind |-> "", key |-> "", msg |-> <<>>]

\* Wallets sign the message api_nonce returned.
Signatures ==
    {sign(k, _login_message(n)) : k \in Wallets, n \in Issued}
        \cup {Malformed, NoSignature}

\* Account.recover_message(encode_defunct(text=message), signature=signature):
\* raises on a string that is no signature; recovers the signer's checksum
\* address when the signature was made over the same text, and the address
\* of an unrelated key (no wallet's) when it was made over another text.
recover_raises(signature) == signature.kind # "sig"

recover_any(message, signature) == EvmAddress("aa", "mixed")

recover_message(message, signature) ==
    IF signature.msg = message
    THEN EvmAddress(signature.key, "mixed")
    ELSE EvmAddress("unrelated", "mixed")

-----------------------------------------------------------------------------
(* models.py: the WalletUser table *)

\* A row as get_or_create inserts it: the next id of the BigAutoField (no
\* row is ever deleted here), nonce '' (the CharField's default), last_login
\* NULL (0; no time is 0).
NewWalletUser(users, address) ==
    [id |-> Cardinality(users) + 1, address |-> address, nonce |-> "",
     last_login |-> 0]

Registered(users, address) == \E u \in users : u.address = address

\* WalletUser.objects.get(address=address); address is unique.
UserByAddress(users, address) == CHOOSE u \in users : u.address = address

create_always(users, address) ==
    users \cup {NewWalletUser(users, address)}

\* WalletUser.objects.get_or_create(address=addr, ...).  Its SELECT and
\* INSERT are one step: a concurrent INSERT of the same address is rejected
\* by the unique index and get_or_create then returns the row that won,
\* which is what this step returns when it runs second.
get_or_create(users, address) ==
    IF Registered(users, address) THEN users
    ELSE users \cup {NewWalletUser(users, address)}

\* user.save(update_fields=["nonce"]): UPDATE ... SET nonce WHERE id.
keep_pending_nonce(users, id, nonce) ==
    {IF u.id = id /\ u.nonce = "" THEN [u EXCEPT !.nonce = nonce] ELSE u : u \in users}

save_nonce(users, id, nonce) ==
    {IF u.id = id THEN [u EXCEPT !.nonce = nonce] ELSE u : u \in users}

\* user.save(update_fields=["last_login", "nonce"]) with the values
\* api_verify assigned: UPDATE ... SET last_login, nonce = '' WHERE id.
save_last_login_only(users, id, t) ==
    {IF u.id = id THEN [u EXCEPT !.last_login = t] ELSE u : u \in users}

save_login_every_nonce(users, id, t) ==
    {IF u.id = id THEN [u EXCEPT !.last_login = t, !.nonce = ""]
                  ELSE [u EXCEPT !.nonce = ""] : u \in users}

save_login(users, id, t) ==
    {IF u.id = id THEN [u EXCEPT !.last_login = t, !.nonce = ""] ELSE u : u \in users}

-----------------------------------------------------------------------------
(* views.py: the wallet API; settings.py: the session middleware *)

\* SessionMiddleware.process_response (settings.MIDDLEWARE; the database
\* session backend): the session loaded for the request is written back only
\* when the view modified it and the response is no server error.
save_whatever_status(store, key, modified, value, status) ==
    IF modified THEN [store EXCEPT ![key] = value] ELSE store

save_every_session(store, key, modified, value, status) ==
    [k \in DOMAIN store |-> value]

process_response(store, key, modified, value, status) ==
    IF modified /\ status < 500 THEN [store EXCEPT ![key] = value] ELSE store

\* What a worker holds.  In flight: the handler (kind), its position (pc),
\* the session key of the request, the id of the WalletUser instance it
\* loaded, the nonce it drew (api_nonce), the message it checked
\* (api_verify) and the status of the response it is about to send.
\* Afterwards (pc "done"): the response sent (error "" when the body says
\* ok; the user's id and, from api_nonce, nonce and message when it does),
\* and for api_verify the message the request carried, stripped.
Idle ==
    [pc |-> "idle", kind |-> "", key |-> "", uid |-> 0, nonce |-> "",
     message |-> <<>>, status |-> 0, error |-> ""]

JsonResponse(kind, status, error, uid, nonce, message) ==
    [pc |-> "done", kind |-> kind, key |-> "", uid |-> uid, nonce |-> nonce,
     message |-> message, status |-> status, error |-> error]

Free(w) == req[w].pc \in {"idle", "done"}

\* api_nonce, (1): the address is normalized, the row fetched or created,
\* the token drawn.
api_nonce(w, raw) ==
    /\ Free(w)
    /\ LET addr == _normalize_evm_address(raw)
       IN IF addr = None
          THEN /\ req' = [req EXCEPT ![w] =
                            JsonResponse("nonce", 400, "invalid address", 0, "", <<>>)]
               /\ UNCHANGED <<walletUsers, tokens>>
          ELSE /\ tokens < MaxTokens
               /\ walletUsers' = get_or_create(walletUsers, addr)
               /\ tokens' = tokens + 1
               /\ req' = [req EXCEPT ![w] =
                            [Idle EXCEPT !.pc = "nonce_save", !.kind = "nonce",
                                         !.uid = UserByAddress(walletUsers', addr).id,
                                         !.nonce = token_urlsafe(tokens')]]
    /\ UNCHANGED <<sessions, reviewVars, submitVars, langVars>>

\* api_nonce, (2): the nonce is saved and the response built from the
\* instance.
api_nonce_save(w) ==
    /\ req[w].pc = "nonce_save"
    /\ walletUsers' = save_nonce(walletUsers, req[w].uid, req[w].nonce)
    /\ req' = [req EXCEPT ![w] =
                 JsonResponse("nonce", 200, "", @.uid, @.nonce, _login_message(@.nonce))]
    /\ UNCHANGED <<sessions, tokens, reviewVars, submitVars, langVars>>

\* api_verify from "missing fields" to "address mismatch", on the address,
\* message and signature it parsed from the body: the error of the response,
\* or "" and the id of the WalletUser instance when every check passes;
\* message is the local of that name.
Checked(error, uid, message) == [error |-> error, uid |-> uid, message |-> message]

api_verify_checks(users, address, message, signature) ==
    IF address = None \/ message = <<>> \/ signature = NoSignature
    THEN Checked("missing fields", 0, message)
    ELSE IF ~Registered(users, address)
    THEN Checked("unknown address", 0, message)
    ELSE LET user == UserByAddress(users, address)
         IN IF user.nonce = ""
            THEN Checked("no nonce; request /api/auth/nonce first", 0, message)
            ELSE IF message # _login_message(user.nonce)
            THEN Checked("message mismatch", 0, message)
            ELSE IF recover_raises(signature)
            THEN Checked("bad signature", 0, message)
            ELSE IF address_lower(recover_message(message, signature)) # address
            THEN Checked("address mismatch", 0, message)
            ELSE Checked("", user.id, message)

\* api_verify on a body: the three fields are parsed (the address
\* normalized, the message stripped), then checked.  (The json of the body
\* always parses here: "bad json" reads nothing but the body.)
api_verify_body(users, rawAddress, rawMessage, signature) ==
    api_verify_checks(users, _normalize_evm_address(rawAddress),
                      strip(rawMessage), signature)

\* The requests clients send to api_verify, told apart by what api_verify
\* makes of them: api_verify_body over all bodies.
VerifyRequests(users) ==
    {api_verify_checks(users, address, message, signature) :
        address \in {_normalize_evm_address(raw) : raw \in RawAddresses},
        message \in {strip(m) : m \in Messages},
        signature \in Signatures}

\* api_verify, (1), on some worker for some session: the body is read and
\* checked against the WalletUser row; a failed check is the response.  When
\* all pass, the session (loaded by WalletAuthMiddleware at the start of the
\* request) gets wallet_user_id in memory and the instance gets its new field
\* values.
api_verify_consuming ==
    /\ \E c \in VerifyRequests(walletUsers), w \in Workers :
          /\ Free(w)
          /\ IF c.error # ""
             THEN /\ req' = [req EXCEPT ![w] =
                               JsonResponse("verify", 400, c.error, 0, "", c.message)]
                  /\ walletUsers' = {[u EXCEPT !.nonce = ""] : u \in walletUsers}
             ELSE /\ \E key \in SessionKeys :
                        req' = [req EXCEPT ![w] =
                                  [Idle EXCEPT !.pc = "verify_save", !.kind = "verify",
                                               !.key = key, !.uid = c.uid,
                                               !.message = c.message]]
                  /\ UNCHANGED walletUsers
    /\ UNCHANGED <<sessions, tokens, reviewVars, submitVars, langVars>>

api_verify ==
    /\ \E c \in VerifyRequests(walletUsers), w \in Workers :
          /\ Free(w)
          /\ IF c.error # ""
             THEN req' = [req EXCEPT ![w] =
                            JsonResponse("verify", 400, c.error, 0, "", c.message)]
             ELSE \E key \in SessionKeys :
                     req' = [req EXCEPT ![w] =
                               [Idle EXCEPT !.pc = "verify_save", !.kind = "verify",
                                            !.key = key, !.uid = c.uid,
                                            !.message = c.message]]
    /\ UNCHANGED <<walletUsers, sessions, tokens, reviewVars, submitVars, langVars>>

\* api_verify, (2): user.save(update_fields=["last_login", "nonce"]), t the
\* reading of timezone.now().
api_verify_save(w, t) ==
    /\ req[w].pc = "verify_save"
    /\ walletUsers' = save_login(walletUsers, req[w].uid, t)
    /\ req' = [req EXCEPT ![w] = [@ EXCEPT !.pc = "respond", !.status = 200]]
    /\ UNCHANGED <<sessions, tokens, reviewVars, submitVars, langVars>>

\* api_verify, (2'): the UPDATE fails (the database is locked or gone); the
\* exception leaves the view and Django answers with a server error.
api_verify_save_error(w) ==
    /\ req[w].pc = "verify_save"
    /\ req' = [req EXCEPT ![w] = [@ EXCEPT !.pc = "respond", !.status = 500]]
    /\ UNCHANGED <<walletUsers, sessions, tokens, reviewVars, submitVars, langVars>>

\* api_logout, (1): request.session.pop("wallet_user_id", None) marks the
\* session modified only if the loaded session holds the key.
api_logout(w, key) ==
    /\ Free(w)
    /\ req' = [req EXCEPT ![w] =
                 IF sessions[key] = 0
                 THEN JsonResponse("logout", 200, "", 0, "", <<>>)
                 ELSE [Idle EXCEPT !.pc = "respond", !.kind = "logout",
                                   !.key = key, !.status = 200]]
    /\ UNCHANGED <<walletUsers, sessions, tokens, reviewVars, submitVars, langVars>>

\* The response of a request that modified its session passes the session
\* middleware: wallet_user_id is the user's id after api_verify and absent
\* after api_logout.
SessionMiddleware(w) ==
    /\ req[w].pc = "respond"
    /\ sessions' = process_response(sessions, req[w].key, TRUE, req[w].uid,
                                    req[w].status)
    /\ req' = [req EXCEPT ![w] =
                 IF @.status < 500
                 THEN JsonResponse(@.kind, @.status, "", @.uid, "", @.message)
                 ELSE JsonResponse(@.kind, @.status, "server error", 0, "", @.message)]
    /\ UNCHANGED <<walletUsers, tokens, reviewVars, submitVars, langVars>>

-----------------------------------------------------------------------------
(* models.py, views.py: campaigns and the submission handlers *)

MaxDay == 1

MaxRows == 2

VISIT == "VISIT"

LINK == "LINK"

MIXED_LEGACY == "MIXED"

TaskType == {VISIT, LINK, MIXED_LEGACY}

Network == {"ETH", "SOL", "BNB", "POL"}

\* The campaign the admin created: it runs from day 1 to day MaxDay.
Slugs == {"c1"}

\* The readings of timezone.localdate(): the day before the campaign starts,
\* its days, and the day after it ends.
Days == 0..(MaxDay + 1)

\* The values staff give client_site_domain: blank (the default) or the
\* client's site.
Domains == {<<>>, <<"client.example">>}

\* A Campaign row as CampaignAdmin's add form saves it, with the model's
\* defaults for the two toggles (not published, not paused).
NewCampaign(task_type, client_site_domain) ==
    [task_type |-> task_type, is_published |-> FALSE, is_paused |-> FALSE,
     start |-> 1, end |-> MaxDay, visit_code |-> <<"CODE">>,
     client_site_domain |-> client_site_domain]

\* Campaign.is_open_now, today the reading of timezone.localdate().
is_open_ignoring_pause(c, today) ==
    (c.start <= today /\ today <= c.end) /\ c.is_published

is_open_any_day(c, today) ==
    ~c.is_paused /\ c.is_published

is_open_now(c, today) ==
    (c.start <= today /\ today <= c.end) /\ ~c.is_paused /\ c.is_published

get_wallet_user_unchecked(store, users, key) == store[key]

\* get_wallet_user: the WalletUser WalletAuthMiddleware resolved from the
\* session's wallet_user_id, None (0) when the session holds none or the row
\* is gone.
get_wallet_user(store, users, key) ==
    IF store[key] # 0 /\ (\E u \in users : u.id = store[key])
    THEN store[key]
    ELSE 0

\* A network string of the form: its letters read case-insensitively, and
\* whether it is typed in lower case or with whitespace around it.
NetworkString(code, lower, pad) == [code |-> code, lower |-> lower, pad |-> pad]

network_as_given(value) == value.code

\* _clean_network: the upper-cased, stripped value if it is one of
\* Network.choices, else None ("").
_clean_network(value) ==
    LET v == [value EXCEPT !.lower = FALSE, !.pad = FALSE]
    IN  IF v.code \in Network THEN v.code ELSE ""

\* The form fields clients post.  A text is a sequence of pieces, as in the
\* login message; wallet stands for the first non-empty one of the fields the
\* handler reads for it.
PostUrls == {<<>>, <<" ", "https://x.example/post/1", "\n">>}

Comments == {<<"nice", " ">>}

Codes == {<<" ", "CODE", " ">>, <<"WRONG">>}

VisitedUrls == {<<" ", "https://client.example", " ">>}

WalletFields == {<<>>, <<" ">>, <<"0xW1">>, <<" ", "0xW1", " ">>}

NetworkFields ==
    {NetworkString("ETH", FALSE, FALSE), NetworkString("ETH", TRUE, TRUE),
     NetworkString("XRP", FALSE, FALSE), NetworkString("", FALSE, FALSE)}

\* A Submission row with the columns the handlers write and the review reads;
\* the columns a handler does not pass get the model's defaults: blank texts,
\* status PENDING, is_approved and is_paid false.
SubmissionRow(slug, user, wallet, network, post_url, comment, visited_url, code) ==
    [campaign |-> slug, user |-> user, wallet_address |-> wallet,
     network |-> network, post_url |-> post_url, comment |-> comment,
     visited_url |-> visited_url, code_entered |-> code,
     status |-> PENDING, is_approved |-> FALSE, is_paid |-> FALSE]

NoRow == SubmissionRow("", 0, <<>>, "", <<>>, <<>>, <<>>, <<>>)

\* What a submission handler makes of a request before it writes: the
\* response when it ends there (404, or 400 with its text), or status 302 and
\* the row it goes on to create.
HttpResponse(status, error) == [status |-> status, error |-> error, row |-> NoRow]

CreatesUnowned(row) ==
    [status |-> 302, error |-> "", row |-> [row EXCEPT !.user = 0]]

Creates(row) == [status |-> 302, error |-> "", row |-> row]

\* The forms the two handlers read.
LinkForms ==
    [post_url : PostUrls, comment : Comments, wallet : WalletFields,
     network : NetworkFields]

VisitForms ==
    [code : Codes, visited_url : VisitedUrls, wallet : WalletFields,
     network : NetworkFields]

\* What the handlers read from request.POST: each text stripped, the network
\* cleaned.
ParseLink(post) ==
    [post_url |-> strip(post.post_url), comment |-> strip(post.comment),
     wallet |-> strip(post.wallet), network |-> _clean_network(post.network)]

ParseVisit(post) ==
    [code |-> strip(post.code), visited_url |-> strip(post.visited_url),
     wallet |-> strip(post.wallet), network |-> _clean_network(post.network)]

ParsedLinkForms == {ParseLink(post) : post \in LinkForms}

ParsedVisitForms == {ParseVisit(post) : post \in VisitForms}

submit_link_any_type(cs, user, slug, form, today) ==
    IF slug \notin DOMAIN cs THEN HttpResponse(404, "not found")
    ELSE IF ~is_open_now(cs[slug], today)
    THEN HttpResponse(400, "campaign closed")
    ELSE IF form.wallet = <<>> \/ form.network = ""
    THEN HttpResponse(400, "wallet and network required")
    ELSE Creates(SubmissionRow(slug, user, form.wallet, form.network,
                               form.post_url, form.comment, <<>>, <<>>))

\* submit_link up to Submission.objects.create, on the Campaign rows it
\* reads, the caller's wallet user, the slug of the URL, the form as read
\* and the day.
submit_link_view(cs, user, slug, form, today) ==
    IF slug \notin DOMAIN cs THEN HttpResponse(404, "not found")
    ELSE LET campaign == cs[slug]
         IN  IF campaign.task_type # LINK
             THEN HttpResponse(400, "wrong task type")
             ELSE IF ~is_open_now(campaign, today)
             THEN HttpResponse(400, "campaign closed")
             ELSE IF form.wallet = <<>> \/ form.network = ""
             THEN HttpResponse(400, "wallet and network required")
             ELSE Creates(SubmissionRow(slug, user, form.wallet, form.network,
                                        form.post_url, form.comment,
                                        <<>>, <<>>))

submit_visit_checking_code(cs, user, slug, form, today) ==
    IF slug \notin DOMAIN cs THEN HttpResponse(404, "not found")
    ELSE IF cs[slug].task_type # VISIT
    THEN HttpResponse(400, "wrong task type")
    ELSE IF ~is_open_now(cs[slug], today)
    THEN HttpResponse(400, "campaign closed")
    ELSE IF form.wallet = <<>> \/ form.network = ""
    THEN HttpResponse(400, "wallet and network required")
    ELSE IF form.code # cs[slug].visit_code
    THEN HttpResponse(400, "wrong code")
    ELSE Creates(SubmissionRow(slug, user, form.wallet, form.network,
                               <<>>, <<>>,
                               IF cs[slug].client_site_domain # <<>>
                               THEN cs[slug].client_site_domain
                               ELSE form.visited_url,
                               form.code))

\* submit_visit up to Submission.objects.create.
submit_visit_view(cs, user, slug, form, today) ==
    IF slug \notin DOMAIN cs THEN HttpResponse(404, "not found")
    ELSE LET campaign == cs[slug]
             visited_url == IF campaign.client_site_domain # <<>>
                            THEN campaign.client_site_domain
                            ELSE form.visited_url
         IN  IF campaign.task_type # VISIT
             THEN HttpResponse(400, "wrong task type")
             ELSE IF ~is_open_now(campaign, today)
             THEN HttpResponse(400, "campaign closed")
             ELSE IF form.wallet = <<>> \/ form.network = ""
             THEN HttpResponse(400, "wallet and network required")
             ELSE Creates(SubmissionRow(slug, user, form.wallet, form.network,
                                        <<>>, <<>>, visited_url, form.code))

\* The slugs of the URLs clients post to: the campaign's and one no Campaign
\* row has.
RequestSlugs == Slugs \cup {"gone"}

\* A submission request in flight: pc "insert" is the handler about to run
\* Submission.objects.create with row, having read localdate() as today in
\* its gate; pc "done" is its response.
SubmitIdle ==
    [pc |-> "idle", status |-> 0, error |-> "", row |-> NoRow, today |-> 0]

Handled(o, today) ==
    IF o.status = 302
    THEN [pc |-> "insert", status |-> 0, error |-> "", row |-> o.row,
          today |-> today]
    ELSE [pc |-> "done", status |-> o.status, error |-> o.error,
          row |-> NoRow, today |-> 0]

\* The Submission table has room for the rows of the creating requests in
\* flight and one more.
RoomForRow ==
    Len(submitted) + Cardinality({w \in Workers : submitReq[w].pc = "insert"})
        < MaxRows

\* submit_link, up to the create: every request a client can send.
LinkRequests ==
    {Handled(submit_link_view(campaigns,
                              get_wallet_user(sessions, walletUsers, key),
                              slug, form, today), today) :
        key \in SessionKeys, slug \in RequestSlugs, form \in ParsedLinkForms,
        today \in Days}

submit_link ==
    \E h \in LinkRequests, w \in Workers :
        /\ submitReq[w].pc = "idle"
        /\ h.pc = "insert" => RoomForRow
        /\ submitReq' = [submitReq EXCEPT ![w] = h]
        /\ UNCHANGED <<campaigns, submitted, reviewVars, authVars, langVars>>

\* submit_visit, up to the create.
VisitRequests ==
    {Handled(submit_visit_view(campaigns,
                               get_wallet_user(sessions, walletUsers, key),
                               slug, form, today), today) :
        key \in SessionKeys, slug \in RequestSlugs, form \in ParsedVisitForms,
        today \in Days}

submit_visit ==
    \E h \in VisitRequests, w \in Workers :
        /\ submitReq[w].pc = "idle"
        /\ h.pc = "insert" => RoomForRow
        /\ submitReq' = [submitReq EXCEPT ![w] = h]
        /\ UNCHANGED <<campaigns, submitted, reviewVars, authVars, langVars>>

\* Submission.objects.create of either handler, and its redirect.  The
\* Submission table has no unique constraint (models.py: Meta holds two
\* indexes only), so the INSERT succeeds and the handler's except branch is
\* not taken.
Submission_create(w) ==
    /\ submitReq[w].pc = "insert"
    /\ submitted' = Append(submitted, submitReq[w].row)
    /\ submitReq' = [submitReq EXCEPT ![w] =
                        [pc |-> "done", status |-> 302, error |-> "",
                         row |-> NoRow, today |-> 0]]
    /\ UNCHANGED <<campaigns, reviewVars, authVars, langVars>>

\* The response leaves the worker.
submit_response(w) ==
    /\ submitReq[w].pc = "done"
    /\ submitReq' = [submitReq EXCEPT ![w] = SubmitIdle]
    /\ UNCHANGED <<campaigns, submitted, reviewVars, authVars, langVars>>

\* CampaignAdmin's change form: staff set the two toggles of a campaign.
CampaignAdmin_change(slug, is_published, is_paused) ==
    /\ campaigns[slug].is_published # is_published
          \/ campaigns[slug].is_paused # is_paused
    /\ campaigns' = [campaigns EXCEPT ![slug].is_published = is_published,
                                      ![slug].is_paused = is_paused]
    /\ UNCHANGED <<submitted, submitReq, reviewVars, authVars, langVars>>

-----------------------------------------------------------------------------
(* middleware.py: language routing *)

MaxRedirects == 3

SUPPORTED_LANGS == {"en", "ko", "ja", "zh"}

\* A path is the sequence of its "/" and its names; a language tag, as a
\* query value or in Accept-Language, the sequence of its subtags and "-"
\* (<<>>: not given).
UNPREFIXED_REDIRECT_TABLE ==
    (<<"/">> :> <<"/", "{lang}", "/">>)
    @@ (<<"/", "rewards", "/">> :> <<"/", "{lang}", "/", "rewards", "/">>)
    @@ (<<"/", "events", "/">> :> <<"/", "{lang}", "/", "events", "/">>)
    @@ (<<"/", "leaderboard", "/">> :> <<"/", "{lang}", "/", "leaderboard", "/">>)

\* str.format(lang=...) on a template of the table.
format(tpl, lang) == [i \in 1..Len(tpl) |-> IF tpl[i] = "{lang}" THEN lang ELSE tpl[i]]

\* str.startswith.
startswith_never(path, prefix) == FALSE

startswith(path, prefix) ==
    Len(path) >= Len(prefix) /\ SubSeq(path, 1, Len(prefix)) = prefix

\* str.lower() on a subtag.
subtag_lower(t) ==
    CASE t = "KO" -> "ko"
      [] t = "JA" -> "ja"
      [] t = "ZH" -> "zh"
      [] t = "EN" -> "en"
      [] OTHER -> t

\* _normalize_lang.
_normalize_lang(val) ==
    IF val = <<>> THEN "en"
    ELSE LET v == [i \in 1..Len(val) |-> subtag_lower(val[i])]
         IN  IF Len(v) = 1 /\ v[1] \in SUPPORTED_LANGS THEN v[1]
             ELSE IF v[1] = "ko" THEN "ko"
             ELSE IF v[1] = "ja" THEN "ja"
             ELSE IF v[1] = "zh" THEN "zh"
             ELSE "en"

\* _country_to_lang.
_country_to_lang(country) ==
    IF country \in {"KR", "KP"} THEN "ko"
    ELSE IF country = "JP" THEN "ja"
    ELSE IF country \in {"CN", "SG"} THEN "zh"
    ELSE "en"

\* settings.TIME_ZONE and the language the localhost fallback reads from it
\* ("": none).
TIME_ZONE == "Asia/Seoul"

time_zone_lang ==
    IF TIME_ZONE \in {"Asia/Seoul"} THEN "ko"
    ELSE IF TIME_ZONE \in {"Asia/Tokyo"} THEN "ja"
    ELSE IF TIME_ZONE \in {"Asia/Shanghai", "Asia/Hong_Kong"} THEN "zh"
    ELSE ""

\* The value of a session's "lang" as a tag.
SessionTag(lang) == IF lang = "" THEN <<>> ELSE <<lang>>

\* Steps 3 to 6 of LanguageRoutingMiddleware.__call__ for a request without
\* prefix and without ?lang=: the language of the session, else the one of
\* the country header, else (DEBUG) the one of ?dev_lang= or, on localhost,
\* of TIME_ZONE, else the first of Accept-Language.
detect_lang(r, session_lang) ==
    IF session_lang # "" THEN session_lang
    ELSE IF r.country # "" THEN _country_to_lang(r.country)
    ELSE LET dev == IF ~r.debug THEN ""
                    ELSE IF r.dev_lang # <<>> THEN _normalize_lang(r.dev_lang)
                    ELSE IF r.localhost THEN time_zone_lang
                    ELSE ""
         IN  IF dev # "" THEN dev ELSE _normalize_lang(r.accept)

\* What the browser holds.  A request on its way: its path, its ?lang= and
\* ?dev_lang= values, the country header, whether it comes from localhost,
\* the first tag of Accept-Language, settings.DEBUG of the server, and how
\* many redirects the browser followed to send it.  A response: the redirect
\* (pc "redirect", its Location) or the call of get_response (pc "view",
\* request.lang as the view reads it).
NoPageRequest ==
    [pc |-> "idle", path |-> <<>>, qlang |-> <<>>, dev_lang |-> <<>>,
     country |-> "", localhost |-> FALSE, accept |-> <<>>, debug |-> FALSE,
     lang |-> "", location |-> <<>>, redirects |-> 0]

PageRequest(path, qlang, dev_lang, country, localhost, accept, debug) ==
    [NoPageRequest EXCEPT !.pc = "request", !.path = path, !.qlang = qlang,
                          !.dev_lang = dev_lang, !.country = country,
                          !.localhost = localhost, !.accept = accept,
                          !.debug = debug]

\* LanguageRoutingMiddleware.__call__: what it stores in the session
\* (session), what it sets request.lang to (lang) and the Location of its
\* redirect (<<>>: it returns get_response(request)).
Routed(session, lang, location) ==
    [session |-> session, lang |-> lang, location |-> location]

LanguageRoutingMiddleware_call(r, session_lang) ==
    IF startswith(r.path, <<"/", "ko", "/">>) THEN Routed("ko", "ko", <<>>)
    ELSE IF startswith(r.path, <<"/", "ja", "/">>) THEN Routed("ja", "ja", <<>>)
    ELSE IF startswith(r.path, <<"/", "zh", "/">>) THEN Routed("zh", "zh", <<>>)
    ELSE LET stored == IF r.qlang # <<>> THEN _normalize_lang(r.qlang)
                       ELSE detect_lang(r, session_lang)
             lang == IF r.qlang # <<>> THEN stored
                     ELSE _normalize_lang(SessionTag(stored))
         IN  IF lang \in {"ko", "ja", "zh"}
                /\ r.path \in DOMAIN UNPREFIXED_REDIRECT_TABLE
             THEN Routed(stored, lang, format(UNPREFIXED_REDIRECT_TABLE[r.path], lang))
             ELSE Routed(stored, lang, <<>>)

\* The request passes the middleware; the session it assigned to is saved
\* with the response (a redirect, or the page or error page of the view).
LanguageRoutingMiddleware ==
    /\ langReq.pc = "request"
    /\ LET o == LanguageRoutingMiddleware_call(langReq, langSession)
       IN  /\ langSession' = o.session
           /\ langReq' = [langReq EXCEPT
                            !.pc = IF o.location = <<>> THEN "view" ELSE "redirect",
                            !.lang = o.lang,
                            !.location = o.location]
    /\ UNCHANGED <<reviewVars, authVars, submitVars>>

\* The browser follows the redirect: it requests the Location, which has no
\* query, with the same headers.
follow_redirect ==
    /\ langReq.pc = "redirect"
    /\ langReq.redirects < MaxRedirects
    /\ langReq' = [langReq EXCEPT !.pc = "request", !.path = langReq.location,
                                  !.qlang = <<>>, !.dev_lang = <<>>,
                                  !.lang = "", !.location = <<>>,
                                  !.redirects = @ + 1]
    /\ UNCHANGED <<langSession, reviewVars, authVars, submitVars>>

\* The requests browsers send and the sessions they send them with.
Paths ==
    {<<"/">>, <<"/", "rewards", "/">>, <<"/", "events", "/">>,
     <<"/", "leaderboard", "/">>, <<"/", "advertiser", "/">>,
     <<"/", "rewards">>, <<"/", "ko">>, <<"/", "ko", "/">>,
     <<"/", "ja", "/", "rewards", "/">>, <<"/", "zh", "/", "events", "/">>,
     <<"/", "ko", "/", "leaderboard", "/">>,
     <<"/", "rewards", "/", "apply", "/", "ko", "/">>,
     <<"/", "api", "/", "auth", "/", "nonce">>}

LangTags == {<<>>, <<"ko">>, <<"JA", "-", "JP">>, <<"fr">>}

Countries == {"", "KR", "US"}

InitLang ==
    /\ submissions = [s \in {} |-> NewSubmission]
    /\ payouts = [s \in {} |-> 0]
    /\ admin = [st \in AdminWorkers |-> AdminIdle]
    /\ walletUsers = {}
    /\ sessions = [k \in SessionKeys |-> 0]
    /\ tokens = 0
    /\ req = [w \in Workers |-> Idle]
    /\ campaigns = [slug \in Slugs |-> NewCampaign(VISIT, <<>>)]
    /\ submitted = <<>>
    /\ submitReq = [w \in Workers |-> SubmitIdle]
    /\ langSession \in SUPPORTED_LANGS \cup {""}
    /\ \E path \in Paths, qlang \in LangTags, dev_lang \in {<<>>, <<"zh">>},
          country \in Countries, localhost \in BOOLEAN,
          accept \in {<<>>, <<"zh", "-", "CN">>, <<"en", "-", "US">>},
          debug \in BOOLEAN :
          langReq = PageRequest(path, qlang, dev_lang, country, localhost,
                                accept, debug)

NextLang ==
    \/ LanguageRoutingMiddleware
    \/ follow_redirect

SpecLang == InitLang /\ [][NextLang]_vars

\* The server answers every request and the browser follows every redirect.
SpecLangFair == SpecLang /\ WF_vars(NextLang)

-----------------------------------------------------------------------------
(* The initial state: the Submission table holds the rows the submit        *)
(* handlers created, all PENDING, and no payout exists; no wallet has       *)
(* logged in yet and no session holds a wallet user.                        *)

Init ==
    /\ submissions = [s \in SubIds |-> NewSubmission]
    /\ payouts = [s \in SubIds |-> 0]
    /\ admin = [st \in AdminWorkers |-> AdminIdle]
    /\ walletUsers = {}
    /\ sessions = [k \in SessionKeys |-> 0]
    /\ tokens = 0
    /\ req = [w \in Workers |-> Idle]
    /\ campaigns = [slug \in Slugs |-> NewCampaign(VISIT, <<>>)]
    /\ submitted = <<>>
    /\ submitReq = [w \in Workers |-> SubmitIdle]
    /\ langSession = ""
    /\ langReq = NoPageRequest

\* The review / payout specification.
NextReview ==
    \/ \E S \in Selections : SubmissionAdmin_mark_approved(S)
    \/ \E S \in Selections : mark_rejected(S)
    \/ \E st \in AdminWorkers, S \in Selections : create_payouts_for_selected(st, S)
    \/ \E st \in AdminWorkers : create_payouts_for_selected_check(st)
    \/ \E st \in AdminWorkers : create_payouts_for_selected_insert(st)
    \/ \E st \in AdminWorkers : create_payouts_for_selected_save(st)
    \/ \E st \in AdminWorkers, s \in SubIds : PayoutAdmin_add(st, s)
    \/ \E st \in AdminWorkers : PayoutAdmin_add_save(st)
    \/ \E s \in SubIds : PayoutAdmin_delete(s)
    \/ \E s \in SubIds, status \in SubmissionStatus, p \in BOOLEAN :
          SubmissionAdmin_change(s, status, p)

SpecReview == Init /\ [][NextReview]_vars

\* The wallet login specification.
NextAuth ==
    \/ \E w \in Workers, raw \in NonceAddresses : api_nonce(w, raw)
    \/ \E w \in Workers : api_nonce_save(w)
    \/ api_verify
    \/ \E w \in Workers, t \in Times : api_verify_save(w, t)
    \/ \E w \in Workers : api_verify_save_error(w)
    \/ \E w \in Workers, key \in SessionKeys : api_logout(w, key)
    \/ \E w \in Workers : SessionMiddleware(w)

SpecAuth == Init /\ [][NextAuth]_vars

\* The wallet login with a second identity: the second wallet has requested
\* challenges before the first wallet arrives, its latest one is pending and
\* one token is left to draw.
InitTwo ==
    /\ submissions = [s \in SubIds |-> NewSubmission]
    /\ payouts = [s \in SubIds |-> 0]
    /\ admin = [st \in AdminWorkers |-> AdminIdle]
    /\ walletUsers =
          save_nonce({NewWalletUser({}, address_lower(EvmAddress("bb", "lower")))},
                     1, token_urlsafe(MaxTokens - 1))
    /\ sessions = [k \in SessionKeys |-> 0]
    /\ tokens = MaxTokens - 1
    /\ req = [w \in Workers |-> Idle]
    /\ campaigns = [slug \in Slugs |-> NewCampaign(VISIT, <<>>)]
    /\ submitted = <<>>
    /\ submitReq = [w \in Workers |-> SubmitIdle]
    /\ langSession = ""
    /\ langReq = NoPageRequest

SpecAuthTwo == InitTwo /\ [][NextAuth]_vars

\* WalletAuthMiddleware in front of a view that reads get_wallet_user (a
\* page): request.wallet_user is the WalletUser of the session's
\* wallet_user_id; when that row is gone the id is popped, which marks the
\* session modified, and the response passes SessionMiddleware.
WalletAuthMiddleware(w, key) ==
    /\ Free(w)
    /\ LET wallet_user == get_wallet_user(sessions, walletUsers, key)
       IN  req' = [req EXCEPT ![w] =
                     IF sessions[key] # 0 /\ wallet_user = 0
                     THEN [Idle EXCEPT !.pc = "respond", !.kind = "page",
                                       !.key = key, !.status = 200]
                     ELSE JsonResponse("page", 200, "", wallet_user, "", <<>>)]
    /\ UNCHANGED <<walletUsers, sessions, tokens, reviewVars, submitVars, langVars>>

\* WalletUserAdmin: staff delete a wallet user.
WalletUserAdmin_delete(id) ==
    /\ \E u \in walletUsers : u.id = id
    /\ walletUsers' = {u \in walletUsers : u.id # id}
    /\ UNCHANGED <<sessions, tokens, req, reviewVars, submitVars, langVars>>

\* Session resolution starts with two wallets logged in, each on its session.
InitSession ==
    /\ submissions = [s \in SubIds |-> NewSubmission]
    /\ payouts = [s \in SubIds |-> 0]
    /\ admin = [st \in AdminWorkers |-> AdminIdle]
    /\ walletUsers =
          LET first == NewWalletUser({}, address_lower(EvmAddress("aa", "lower")))
              second == NewWalletUser({first}, address_lower(EvmAddress("bb", "lower")))
          IN  {[first EXCEPT !.last_login = 1], [second EXCEPT !.last_login = 1]}
    /\ sessions = [k \in SessionKeys |-> IF k = "s1" THEN 1 ELSE 2]
    /\ tokens = 2
    /\ req = [w \in Workers |-> Idle]
    /\ campaigns = [slug \in Slugs |-> NewCampaign(VISIT, <<>>)]
    /\ submitted = <<>>
    /\ submitReq = [w \in Workers |-> SubmitIdle]
    /\ langSession = ""
    /\ langReq = NoPageRequest

NextSession ==
    \/ \E w \in Workers, key \in SessionKeys : WalletAuthMiddleware(w, key)
    \/ \E w \in Workers : SessionMiddleware(w)
    \/ \E id \in 1..Cardinality(Wallets) : WalletUserAdmin_delete(id)

SpecSession == InitSession /\ [][NextSession]_vars

\* Submission.mark_approved with all its columns.  A reviewer_note is a
\* sequence of pieces (notes and the newlines between them); NoScore is the
\* NULL of proof_score and of the score argument, 0 the NULL of reviewed_at,
\* "" the None of reviewed_by, of the reviewer and of the note.
MaxNotes == 2

NoScore == -1

Reviewers == {"", "staff"}

Scores == {NoScore, 0}

Notes == {"", "ok"}

\* A Submission row as submit_visit creates it, with the review columns at
\* their defaults.
NewReviewRow ==
    [campaign |-> "c1", wallet_address |-> <<"0xW1">>,
     code_entered |-> <<"CODE">>, status |-> PENDING, is_approved |-> FALSE,
     is_paid |-> FALSE, reviewed_at |-> 0, reviewed_by |-> "",
     proof_score |-> NoScore, reviewer_note |-> <<>>]

\* Submission.mark_approved up to self.save: the instance after the
\* assignments, now the reading of timezone.now().
Submission_mark_approved(self, reviewer, score, note, now) ==
    [self EXCEPT
        !.status = APPROVED,
        !.is_approved = TRUE,
        !.reviewed_at = now,
        !.reviewed_by = IF reviewer # "" THEN reviewer ELSE @,
        !.proof_score = IF score # NoScore THEN score ELSE @,
        !.reviewer_note =
            IF note # ""
            THEN (IF @ # <<>> THEN @ \o <<"\n">> ELSE <<>>) \o <<note>>
            ELSE @]

save_all_fields(row, self) == self

\* self.save(update_fields=[...]): the UPDATE writes the six columns of the
\* instance and no other.
save_update_fields(row, self) ==
    [row EXCEPT !.status = self.status,
                !.is_approved = self.is_approved,
                !.reviewed_at = self.reviewed_at,
                !.reviewed_by = self.reviewed_by,
                !.proof_score = self.proof_score,
                !.reviewer_note = self.reviewer_note]

\* A staff request that approves submission s, (1): the row is loaded.
approve_load(st, s) ==
    /\ AdminFree(st)
    /\ admin' = [admin EXCEPT ![st] =
                    [AdminIdle EXCEPT !.pc = "approve", !.sub = s,
                                      !.queue = <<submissions[s]>>]]
    /\ UNCHANGED <<submissions, payouts, authVars, submitVars, langVars>>

\* (2): mark_approved runs on the loaded instance and saves it.
approve_save(st, reviewer, score, note, now) ==
    /\ admin[st].pc = "approve"
    /\ note # "" => Len(Head(admin[st].queue).reviewer_note) < 2 * MaxNotes - 1
    /\ LET s == admin[st].sub
           self == Submission_mark_approved(Head(admin[st].queue),
                                            reviewer, score, note, now)
       IN  submissions' = [submissions EXCEPT ![s] = save_update_fields(@, self)]
    /\ admin' = [admin EXCEPT ![st] = Response(admin[st].sub, "ok", 0)]
    /\ UNCHANGED <<payouts, authVars, submitVars, langVars>>

\* SubmissionAdmin's change form, on the two columns of its first fieldset
\* that the review reads: staff set proof_score and is_paid.
SubmissionAdmin_change_score(s, proof_score, is_paid) ==
    /\ submissions[s].proof_score # proof_score \/ submissions[s].is_paid # is_paid
    /\ submissions' = [submissions EXCEPT ![s].proof_score = proof_score,
                                          ![s].is_paid = is_paid]
    /\ UNCHANGED <<payouts, admin, authVars, submitVars, langVars>>

\* The approval starts on one PENDING submission.
InitApprove ==
    /\ submissions = [s \in {1} |-> NewReviewRow]
    /\ payouts = [s \in {1} |-> 0]
    /\ admin = [st \in AdminWorkers |-> AdminIdle]
    /\ walletUsers = {}
    /\ sessions = [k \in SessionKeys |-> 0]
    /\ tokens = 0
    /\ req = [w \in Workers |-> Idle]
    /\ campaigns = [slug \in Slugs |-> NewCampaign(VISIT, <<>>)]
    /\ submitted = <<>>
    /\ submitReq = [w \in Workers |-> SubmitIdle]
    /\ langSession = ""
    /\ langReq = NoPageRequest

NextApprove ==
    \/ \E st \in AdminWorkers, s \in {1} : approve_load(st, s)
    \/ \E st \in AdminWorkers, reviewer \in Reviewers, score \in Scores,
          note \in Notes, now \in Times :
          approve_save(st, reviewer, score, note, now)
    \/ \E s \in {1}, proof_score \in Scores, is_paid \in BOOLEAN :
          SubmissionAdmin_change_score(s, proof_score, is_paid)

SpecApprove == InitApprove /\ [][NextApprove]_vars

\* Challenge issuance alone, on every address string a client can send: the
\* spellings above and a string of the right prefix and length whose other
\* characters are not hexadecimal digits.
NonHexAddress == EvmAddress("zz", "lower")

AnyAddresses == NonceAddresses \cup {NonHexAddress}

NextNonce ==
    \/ \E w \in Workers, raw \in AnyAddresses : api_nonce(w, raw)
    \/ \E w \in Workers : api_nonce_save(w)

SpecNonce == Init /\ [][NextNonce]_vars

\* The submission handlers start on the campaign staff created, of any task
\* type and with or without a client_site_domain, with an empty Submission table; one wallet has logged in on session
\* s1 (its nonce consumed) and session s2 is anonymous.
InitSubmit ==
    /\ submissions = [s \in {} |-> NewSubmission]
    /\ payouts = [s \in {} |-> 0]
    /\ admin = [st \in AdminWorkers |-> AdminIdle]
    /\ walletUsers =
          {[NewWalletUser({}, address_lower(EvmAddress("aa", "lower")))
               EXCEPT !.last_login = 1]}
    /\ sessions = [k \in SessionKeys |-> IF k = "s1" THEN 1 ELSE 0]
    /\ tokens = 1
    /\ req = [w \in Workers |-> Idle]
    /\ \E t \in TaskType, domain \in Domains :
          campaigns = [slug \in Slugs |-> NewCampaign(t, domain)]
    /\ submitted = <<>>
    /\ submitReq = [w \in Workers |-> SubmitIdle]
    /\ langSession = ""
    /\ langReq = NoPageRequest

NextSubmit ==
    \/ submit_link
    \/ submit_visit
    \/ \E w \in Workers : Submission_create(w)
    \/ \E w \in Workers : submit_response(w)
    \/ \E slug \in Slugs, is_published \in BOOLEAN, is_paused \in BOOLEAN :
          CampaignAdmin_change(slug, is_published, is_paused)

SpecSubmit == InitSubmit /\ [][NextSubmit]_vars

\* The campaigns of the listing pages: the one above and a second one, whose
\* dates staff chose freely.
LiveSlugs == {"c1", "c2"}

\* Campaign.id, in the order the rows were added.
CampaignId(slug) == IF slug = "c1" THEN 1 ELSE 2

\* QuerySet.order_by("-start", "-id") on the rows named by S.
RECURSIVE order_by_start_id(_, _)
order_by_start_id(table, S) ==
    IF S = {} THEN <<>>
    ELSE LET first == CHOOSE x \in S : \A y \in S \ {x} :
                         \/ table[x].start > table[y].start
                         \/ /\ table[x].start = table[y].start
                            /\ CampaignId(x) > CampaignId(y)
         IN  <<first>> \o order_by_start_id(table, S \ {first})

\* _live_campaigns(), today the reading of timezone.localdate().
live_on_any_day(table, today) ==
    order_by_start_id(table, {x \in DOMAIN table :
                                 table[x].is_published /\ ~table[x].is_paused})

_live_campaigns(table, today) ==
    order_by_start_id(table,
        {x \in DOMAIN table :
            /\ table[x].is_published = TRUE
            /\ table[x].is_paused = FALSE
            /\ table[x].start <= today
            /\ table[x].end >= today})

\* rewards_en (and the other home and rewards pages): the page is rendered
\* with "projects" the live campaigns of the day.
rewards_en(w, today) ==
    /\ submitReq[w].pc = "idle"
    /\ submitReq' = [submitReq EXCEPT ![w] =
                       [pc |-> "done", status |-> 200, error |-> "",
                        row |-> NoRow, today |-> today,
                        projects |-> _live_campaigns(campaigns, today)]]
    /\ UNCHANGED <<campaigns, submitted, reviewVars, authVars, langVars>>

\* The listing pages start on two campaigns as staff added them, neither
\* published yet.
InitLive ==
    /\ submissions = [s \in {} |-> NewSubmission]
    /\ payouts = [s \in {} |-> 0]
    /\ admin = [st \in AdminWorkers |-> AdminIdle]
    /\ walletUsers = {}
    /\ sessions = [k \in SessionKeys |-> 0]
    /\ tokens = 0
    /\ req = [w \in Workers |-> Idle]
    /\ \E a \in Days, b \in Days :
          campaigns = [slug \in LiveSlugs |->
                         IF slug = "c1" THEN NewCampaign(VISIT, <<>>)
                         ELSE [NewCampaign(LINK, <<>>) EXCEPT !.start = a, !.end = b]]
    /\ submitted = <<>>
    /\ submitReq = [w \in Workers |-> SubmitIdle]
    /\ langSession = ""
    /\ langReq = NoPageRequest

NextLive ==
    \/ \E w \in Workers, today \in Days : rewards_en(w, today)
    \/ \E w \in Workers : submit_response(w)
    \/ \E slug \in LiveSlugs, is_published \in BOOLEAN, is_paused \in BOOLEAN :
          CampaignAdmin_change(slug, is_published, is_paused)

SpecLive == InitLive /\ [][NextLive]_vars

-----------------------------------------------------------------------------
(* Claims on the review / payout state machine (SpecReview) *)

\* C1. Payout exclusivity: in every reachable state every submission has at
\* most one Payout row, and in every interleaving of two payout creations on
\* the same submission (create_payouts_for_selected and the add form, in any
\* mix) a Payout row is only ever inserted for a submission that has none at
\* that moment, so two creations never both succeed.
PayoutExclusivity ==
    /\ [](\A s \in SubIds : payouts[s] <= 1)
    /\ [][\A s \in SubIds : payouts'[s] > payouts[s] => ~HasPayout(payouts, s)]_vars

\* Two creations raced on one submission: both passed their check for an
\* existing payout, one inserted the row and ended "ok", the other's INSERT
\* was rejected by the constraint.
PayoutRaceLost ==
    \E a, b \in AdminWorkers :
        /\ a # b
        /\ admin[a].pc = "done" /\ admin[a].result = "ok" /\ admin[a].created >= 1
        /\ admin[b].pc = "done" /\ admin[b].result = "IntegrityError"
        /\ admin[a].sub = admin[b].sub
        /\ payouts[admin[a].sub] = 1

\* A status change the review state machine forbids: out of REJECTED or PAID,
\* or from APPROVED back to PENDING.
Backward(old, new) ==
    \/ old \in {REJECTED, PAID} /\ new # old
    \/ old = APPROVED /\ new = PENDING

\* C9. REJECTED and PAID are terminal and no transition moves backward: no
\* staff operation changes the status of a REJECTED or PAID submission, or
\* takes an APPROVED one back to PENDING.
TerminalStatesAreFinal ==
    [][\A s \in SubIds :
          ~Backward(submissions[s].status, submissions'[s].status)]_vars

\* C10. PAID is entered only from APPROVED and only by payout creation, and
\* no Payout is created for a PENDING or REJECTED submission.
PaidOnlyFromApproved ==
    [][\A s \in SubIds :
          /\ (submissions'[s].status = PAID /\ submissions[s].status # PAID)
                => (submissions[s].status = APPROVED /\ HasPayout(payouts', s))
          /\ payouts'[s] > payouts[s]
                => submissions[s].status \notin {PENDING, REJECTED}]_vars

\* C11. Paid-flag invariant: in every reachable state a submission has
\* is_paid set if and only if a Payout row references it, and then its status
\* is PAID.
PaidFlagInvariant ==
    \A s \in SubIds :
        /\ submissions[s].is_paid <=> HasPayout(payouts, s)
        /\ submissions[s].is_paid => submissions[s].status = PAID

\* C12. Recording a payout is one atomic step: the step that inserts the
\* Payout row of a submission also leaves the submission with status PAID and
\* is_paid set, so no state in between can be observed or left behind.
PayoutRecordedAtomically ==
    [][\A s \in SubIds :
          payouts'[s] > payouts[s]
             => (submissions'[s].status = PAID /\ submissions'[s].is_paid)]_vars

\* C13. A payout creation that meets an existing Payout of its submission,
\* whether its own check sees the row or the unique constraint rejects its
\* INSERT, ends there, reporting that the payout already exists (the form
\* error), and leaves the Payout and Submission tables unchanged.
PayoutAlreadyExistsReported ==
    [][\A st \in AdminWorkers :
          (/\ admin[st].pc \in {"cp_check", "cp_insert", "pa_save"}
           /\ HasPayout(payouts, Head(admin[st].queue).sub)
           /\ admin'[st] # admin[st])
             => /\ admin'[st].pc = "done"
                /\ admin'[st].result = "form_error"
                /\ UNCHANGED <<submissions, payouts>>]_vars

-----------------------------------------------------------------------------
(* Claims on the submission handlers (SpecSubmit) *)

\* C14: for every campaign and wallet address the Submission table holds at
\* most one row with that campaign and that wallet_address, whatever
\* submit_link / submit_visit requests ran and however they interleaved.
OneSubmissionPerWallet ==
    \A i, j \in 1..Len(submitted) :
        (/\ submitted[i].campaign = submitted[j].campaign
         /\ submitted[i].wallet_address = submitted[j].wallet_address)
            => i = j

\* The condition under which a campaign accepts submissions on day d:
\* published, not paused, and d within [start, end], both ends included.
OpenAt(c, d) ==
    c.is_published /\ ~c.is_paused /\ c.start <= d /\ d <= c.end

\* C15: is_open_now is true exactly when the campaign is published, not
\* paused and today lies within [start, end] inclusive; pausing a campaign,
\* all else unchanged, makes it false.  Stated for the Campaign row the
\* handlers read, with every window within Days and on every day.
OpenNowIsGate ==
    \A slug \in Slugs, a \in Days, b \in Days, d \in Days :
        LET c == [campaigns[slug] EXCEPT !.start = a, !.end = b]
        IN  /\ is_open_now(c, d) <=> OpenAt(c, d)
            /\ ~is_open_now([c EXCEPT !.is_paused = TRUE], d)

\* C15 witness: a submission was refused as closed while the campaign is
\* published and paused.
PausedCampaignRefused ==
    \E w \in Workers, slug \in Slugs :
        /\ submitReq[w].pc = "done"
        /\ submitReq[w].error = "campaign closed"
        /\ campaigns[slug].is_published
        /\ campaigns[slug].is_paused

\* The outcome of submit_link / submit_visit for the caller of session key.
LinkOutcome(key, slug, form, d) ==
    submit_link_view(campaigns, get_wallet_user(sessions, walletUsers, key),
                     slug, form, d)

VisitOutcome(key, slug, form, d) ==
    submit_visit_view(campaigns, get_wallet_user(sessions, walletUsers, key),
                      slug, form, d)

\* A step creates a Submission row only as the create of a handler that
\* passed its checks, and leaves the rows already there as they are.
RowsOnlyCreated ==
    /\ Len(submitted') >= Len(submitted)
    /\ \A i \in 1..Len(submitted) : submitted'[i] = submitted[i]
    /\ Len(submitted') > Len(submitted)
          => \E w \in Workers :
                /\ submitReq[w].pc = "insert"
                /\ submitted' = Append(submitted, submitReq[w].row)

\* C16: the gate is evaluated on the campaign as it is when the handler
\* runs.  In every state, a submit_link / submit_visit request for a campaign
\* of the handler's task type that is not open on the day of the request
\* (unpublished, paused, or the day outside [start, end]) gets
\* "campaign closed" and creates no row; and a handler goes on to create a
\* row only if the campaign was open, on the day it read, in the state its
\* gate read, whatever the campaign was before; rows are created by such
\* handlers only.
GateAtSubmissionTime ==
    /\ [](\A key \in SessionKeys, slug \in Slugs, d \in Days :
            ~OpenAt(campaigns[slug], d)
               => /\ campaigns[slug].task_type = LINK
                     => \A form \in ParsedLinkForms :
                           LinkOutcome(key, slug, form, d)
                              = HttpResponse(400, "campaign closed")
                  /\ campaigns[slug].task_type = VISIT
                     => \A form \in ParsedVisitForms :
                           VisitOutcome(key, slug, form, d)
                              = HttpResponse(400, "campaign closed"))
    /\ [][/\ \A w \in Workers :
                (submitReq[w].pc = "idle" /\ submitReq'[w].pc = "insert")
                   => OpenAt(campaigns[submitReq'[w].row.campaign],
                             submitReq'[w].today)
          /\ RowsOnlyCreated]_vars

\* C16 witness: a request was refused as closed on a paused campaign that
\* had been open before (it has a submission).
ClosedAfterOpen ==
    \E w \in Workers, slug \in Slugs :
        /\ submitReq[w].pc = "done"
        /\ submitReq[w].error = "campaign closed"
        /\ campaigns[slug].is_paused
        /\ \E i \in 1..Len(submitted) : submitted[i].campaign = slug

CreatedShape(row) ==
    /\ row.status = PENDING
    /\ ~row.is_approved
    /\ ~row.is_paid

LinkShape(row) == row.visited_url = <<>> /\ row.code_entered = <<>>

VisitShape(row) == row.post_url = <<>> /\ row.comment = <<>>

\* C18: every row submit_link / submit_visit create has status PENDING,
\* is_approved and is_paid false, the wallet user of the caller's session as
\* user (none for an anonymous caller), and only its task type's payload: a
\* LINK row the posted post_url and comment with visited_url and
\* code_entered blank, a VISIT row the visited url and the entered code with
\* post_url and comment blank.  Stated for the row of every request that
\* passes the checks, and for every row in the table.
CreatedRowShape ==
    /\ \A key \in SessionKeys, slug \in Slugs, d \in Days :
          /\ \A form \in ParsedLinkForms :
                LET o == LinkOutcome(key, slug, form, d)
                IN  o.status = 302
                       => /\ CreatedShape(o.row)
                          /\ o.row.user = sessions[key]
                          /\ o.row.post_url = form.post_url
                          /\ o.row.comment = form.comment
                          /\ LinkShape(o.row)
          /\ \A form \in ParsedVisitForms :
                LET o == VisitOutcome(key, slug, form, d)
                IN  o.status = 302
                       => /\ CreatedShape(o.row)
                          /\ o.row.user = sessions[key]
                          /\ o.row.visited_url
                                = IF campaigns[slug].client_site_domain # <<>>
                                  THEN campaigns[slug].client_site_domain
                                  ELSE form.visited_url
                          /\ o.row.code_entered = form.code
                          /\ VisitShape(o.row)
    /\ \A i \in 1..Len(submitted) :
          /\ CreatedShape(submitted[i])
          /\ submitted[i].user \in {sessions[key] : key \in SessionKeys}
          /\ campaigns[submitted[i].campaign].task_type = LINK
                => LinkShape(submitted[i])
          /\ campaigns[submitted[i].campaign].task_type = VISIT
                => VisitShape(submitted[i])

\* C18 witness: the table holds a row of the logged-in wallet user and a row
\* of an anonymous caller.
OwnedAndAnonymousRows ==
    \E i, j \in 1..Len(submitted) :
        /\ submitted[i].user # 0
        /\ submitted[i].user = sessions["s1"]
        /\ submitted[j].user = 0

\* C19: no code check and no approval at submission time.  submit_visit on an
\* open VISIT campaign with a wallet and a valid network goes on to create a
\* PENDING row carrying the entered code, for every entered code, equal to
\* the campaign's visit_code or not; every row in the table is PENDING, and
\* no step of a submission handler changes a row once created.
NoCodeCheckNoApproval ==
    /\ [](/\ \A key \in SessionKeys, slug \in Slugs, d \in Days,
                form \in ParsedVisitForms :
                (/\ campaigns[slug].task_type = VISIT
                 /\ OpenAt(campaigns[slug], d)
                 /\ form.wallet # <<>>
                 /\ form.network \in Network)
                   => LET o == VisitOutcome(key, slug, form, d)
                      IN  /\ o.status = 302
                          /\ o.row.status = PENDING
                          /\ o.row.code_entered = form.code
          /\ \A i \in 1..Len(submitted) :
                submitted[i].status \notin {APPROVED, REJECTED, PAID})
    /\ [][\A i \in 1..Len(submitted) :
             /\ i <= Len(submitted')
             /\ submitted'[i].status = submitted[i].status]_vars

\* C19 witness: the table holds a PENDING row whose entered code is not the
\* campaign's visit_code, and one whose entered code is.
WrongCodePending ==
    \E i, j \in 1..Len(submitted) :
        /\ submitted[i].status = PENDING
        /\ submitted[i].code_entered # campaigns[submitted[i].campaign].visit_code
        /\ campaigns[submitted[i].campaign].task_type = VISIT
        /\ submitted[j].code_entered = campaigns[submitted[j].campaign].visit_code

\* The first failing check of a submission to a handler of task type t, in
\* the order: campaign not found, wrong task type, campaign closed, wallet
\* and network required; "" when none fails.
FirstRefusal(t, slug, form, d) ==
    IF slug \notin Slugs THEN "not found"
    ELSE IF campaigns[slug].task_type # t THEN "wrong task type"
    ELSE IF ~OpenAt(campaigns[slug], d) THEN "campaign closed"
    ELSE IF form.wallet = <<>> \/ form.network \notin Network
    THEN "wallet and network required"
    ELSE ""

\* The network letters of a posted value are one of the four networks.
KnownNetwork(value) == value.code \in Network

\* C25: submit_link / submit_visit report the first failing check in the
\* order not found, wrong task type, campaign closed, wallet and network
\* required (the wallet empty, or the network not one of ETH, SOL, BNB, POL),
\* for every caller, slug, form and day, and in every failure case create no
\* row: the step of a handler that ends in a failure leaves the Submission
\* table unchanged.
SubmitReportsFirstFailure ==
    /\ [](/\ \A value \in NetworkFields :
                /\ _clean_network(value) \in Network <=> KnownNetwork(value)
                /\ _clean_network(value) \in Network \cup {""}
          /\ \A key \in SessionKeys, slug \in RequestSlugs, d \in Days :
                /\ \A form \in ParsedLinkForms :
                      LET o == LinkOutcome(key, slug, form, d)
                      IN  /\ o.error = FirstRefusal(LINK, slug, form, d)
                          /\ o.error # "" => o.status # 302 /\ o.row = NoRow
                /\ \A form \in ParsedVisitForms :
                      LET o == VisitOutcome(key, slug, form, d)
                      IN  /\ o.error = FirstRefusal(VISIT, slug, form, d)
                          /\ o.error # "" => o.status # 302 /\ o.row = NoRow)
    /\ [][\A w \in Workers :
             (submitReq'[w] # submitReq[w] /\ submitReq'[w].error # "")
                => submitted' = submitted]_vars

\* C25 witness: one request was refused for its missing wallet or network
\* and one for its unknown slug, after a row had been created.
RefusedInOrder ==
    \E w, v \in Workers :
        /\ submitReq[w].error = "wallet and network required"
        /\ submitReq[v].error = "not found"
        /\ Len(submitted) > 0

-----------------------------------------------------------------------------
(* Claims on the wallet login (SpecAuth) *)

\* The response of worker w says that api_verify succeeded.
VerifiedOk(w) ==
    /\ req[w].pc = "done" /\ req[w].kind = "verify"
    /\ req[w].status = 200 /\ req[w].error = ""

\* The response of worker w is api_verify's failure with this error.
VerifyFailed(w, error) ==
    req[w].pc = "done" /\ req[w].kind = "verify" /\ req[w].error = error

\* C2. Nonce single-use: once api_verify has succeeded for address A with
\* message(N1), api_verify with the same address and message never passes
\* again, whatever signature it carries; as long as no api_nonce(A) has stored
\* a new nonce it fails with "no nonce", and an api_verify that fails binds no
\* session and writes no row.
NonceSingleUse ==
    /\ [](\A w \in Workers : VerifiedOk(w) =>
            \A u \in walletUsers : u.id = req[w].uid =>
               \A raw \in RawAddresses, sig \in Signatures :
                  _normalize_evm_address(raw) = u.address =>
                     LET e == api_verify_body(walletUsers, raw, req[w].message, sig).error
                     IN  /\ e # ""
                         /\ (u.nonce = "" /\ sig # NoSignature)
                               => e = "no nonce; request /api/auth/nonce first")
    /\ [][\A w \in Workers :
            (Free(w) /\ req'[w] # req[w] /\ req'[w].pc = "done" /\ req'[w].kind = "verify")
               => UNCHANGED <<sessions, walletUsers>>]_vars

\* A verification succeeded on one worker, and the same message, sent again to
\* another, was answered "no nonce".
ReplayRejected ==
    \E w1, w2 \in Workers :
        /\ VerifiedOk(w1)
        /\ VerifyFailed(w2, "no nonce; request /api/auth/nonce first")
        /\ req[w2].message = req[w1].message

\* C3. One issued nonce yields at most one successful verification, also when
\* two api_verify requests with the same valid body run concurrently on
\* different workers: never have two workers both answered success for the
\* same message.
AtMostOneSuccessPerNonce ==
    \A w1, w2 \in Workers :
        (w1 # w2 /\ VerifiedOk(w1) /\ VerifiedOk(w2))
            => req[w1].message # req[w2].message

\* C4. Session binding is all-or-nothing: a session gets a wallet_user_id only
\* from an api_verify whose user.save succeeded, so at that moment, and
\* whenever a worker's last response is that success, the nonce it verified is
\* no longer stored; and a request whose user.save failed with a storage
\* error ends without writing any session.
SessionBindingAllOrNothing ==
    /\ [](\A w \in Workers : VerifiedOk(w) =>
            \A u \in walletUsers : u.id = req[w].uid =>
               _login_message(u.nonce) # req[w].message)
    /\ [][\A w \in Workers :
            (req[w].pc = "respond" /\ req[w].status >= 500 /\ req'[w].pc = "done")
               => sessions' = sessions]_vars
    /\ [][\A key \in SessionKeys :
            (sessions'[key] # sessions[key] /\ sessions'[key] # 0) =>
               \E w \in Workers :
                  /\ req[w].pc = "respond" /\ req[w].kind = "verify"
                  /\ req[w].key = key /\ req[w].status = 200
                  /\ sessions'[key] = req[w].uid
                  /\ \A u \in walletUsers : u.id = req[w].uid =>
                        _login_message(u.nonce) # req[w].message]_vars

\* user.save failed in an api_verify that had passed every check: the answer
\* was a server error, the nonce is still stored and no session holds a
\* wallet user.
StorageErrorBindsNothing ==
    \E w \in Workers :
        /\ req[w].pc = "done" /\ req[w].kind = "verify" /\ req[w].status = 500
        /\ \E u \in walletUsers : _login_message(u.nonce) = req[w].message
        /\ \A key \in SessionKeys : sessions[key] = 0

\* C5. Message binding: for an address with stored nonce N, api_verify fails
\* for every message that is not exactly the canonical message of N, among
\* them the canonical message with whitespace added before or after it, and
\* whatever the signature; with all three fields present the error is
\* "message mismatch".
MessageBinding ==
    \A u \in walletUsers : u.nonce # "" =>
       \A raw \in RawAddresses, m \in Messages, sig \in Signatures :
          (_normalize_evm_address(raw) = u.address /\ m # _login_message(u.nonce)) =>
             LET e == api_verify_body(walletUsers, raw, m, sig).error
             IN  /\ e # ""
                 /\ (strip(m) # <<>> /\ sig # NoSignature) => e = "message mismatch"

\* C6. Address binding: api_verify claiming a registered address, however
\* written, with the canonical message of its stored nonce and a signature
\* made by another wallet's key fails with "address mismatch"; and the checks
\* of api_verify pass for a claimed address, whatever message and signature
\* come with it, only if the signer's address, in lower case, is the claimed
\* address.
AddressBinding ==
    \A u \in walletUsers :
       /\ \A raw \in RawAddresses :
             (_normalize_evm_address(raw) = u.address /\ u.nonce # "") =>
                \A k \in Wallets \ {u.address.body} :
                   api_verify_body(walletUsers, raw, _login_message(u.nonce),
                                   sign(k, _login_message(u.nonce))).error
                      = "address mismatch"
       /\ \A message \in {strip(m) : m \in Messages}, sig \in Signatures :
             api_verify_checks(walletUsers, u.address, message, sig).error = "" =>
                /\ sig.kind = "sig"
                /\ address_lower(EvmAddress(sig.key, "mixed")) = u.address

\* Only one token was ever handed out, so every signature clients hold is
\* over its canonical message, and an api_verify was answered "address
\* mismatch": the signer was not the wallet of the claimed address.
ForeignSignatureRejected ==
    /\ tokens = 1
    /\ \E w \in Workers : VerifyFailed(w, "address mismatch")

\* C7. Only the most recent challenge is valid: api_nonce stores the nonce it
\* returns over whatever nonce was stored; and while a nonce N2 is stored,
\* api_verify with the canonical message of any other issued nonce N1 and a
\* wallet's signature over that message fails with "message mismatch".
OnlyLatestChallengeValid ==
    /\ [][\A w \in Workers :
            (req[w].pc = "nonce_save" /\ req'[w].pc = "done") =>
               /\ req'[w].nonce = req[w].nonce
               /\ \A u \in walletUsers' : u.id = req[w].uid =>
                     u.nonce = req'[w].nonce]_vars
    /\ [](\A u \in walletUsers : u.nonce # "" =>
            \A raw \in RawAddresses, n \in Issued \ {u.nonce}, k \in Wallets :
               _normalize_evm_address(raw) = u.address =>
                  api_verify_body(walletUsers, raw, _login_message(n),
                                  sign(k, _login_message(n))).error
                     = "message mismatch")

\* api_nonce ran twice for a wallet that never logged in; api_verify with the
\* first nonce's message was answered "message mismatch", and an api_verify
\* with the second nonce's message has passed every check.
StaleChallengeRejected ==
    \E w1, w2 \in Workers :
        /\ VerifyFailed(w1, "message mismatch")
        /\ req[w1].message = _login_message(token_urlsafe(1))
        /\ req[w2].pc = "verify_save"
        /\ req[w2].message = _login_message(token_urlsafe(2))
        /\ \A u \in walletUsers :
              u.nonce = token_urlsafe(2) /\ u.last_login = 0

\* C8. Happy path: the message api_nonce returns is the canonical message of
\* the nonce it returns; as long as that nonce is the stored one, api_verify
\* with that message and the signature of the address's own key over it
\* passes every check, however the address is written; the save that follows
\* empties the nonce and sets last_login, and the response binds the request's
\* session to the user.
HappyPath ==
    /\ [](\A w \in Workers :
            (req[w].pc = "done" /\ req[w].kind = "nonce" /\ req[w].error = "") =>
               /\ req[w].message = _login_message(req[w].nonce)
               /\ \A u \in walletUsers : (u.id = req[w].uid /\ u.nonce = req[w].nonce) =>
                     \A raw \in RawAddresses : _normalize_evm_address(raw) = u.address =>
                        api_verify_body(walletUsers, raw, req[w].message,
                                        sign(u.address.body, req[w].message))
                           = Checked("", u.id, req[w].message))
    /\ [][\A w \in Workers :
            /\ (req[w].pc = "verify_save" /\ req'[w].pc = "respond" /\ req'[w].status = 200)
                  => \A u \in walletUsers' : u.id = req[w].uid =>
                        u.nonce = "" /\ u.last_login \in Times
            /\ (req[w].pc = "respond" /\ req[w].kind = "verify" /\ req[w].status = 200
                    /\ req'[w].pc = "done")
                  => sessions'[req[w].key] = req[w].uid /\ req'[w].error = ""]_vars

\* A wallet has logged in: the response said ok, a session holds the user's
\* id, the nonce is empty and last_login is set.
LoggedIn ==
    \E w \in Workers, key \in SessionKeys :
        /\ VerifiedOk(w)
        /\ sessions[key] = req[w].uid
        /\ \E u \in walletUsers :
              u.id = req[w].uid /\ u.nonce = "" /\ u.last_login \in Times

\* C20: WalletUser addresses are unique and canonical.  No two rows have the
\* same address; every stored address is lower-case (0x prefix, no
\* whitespace, full length); two spellings of one address that api_nonce /
\* api_verify accept normalize to the same address, so they look up the same
\* row, and no two rows hold spellings of one address.
CanonicalUniqueAddresses ==
    /\ \A u, v \in walletUsers :
          (u.address = v.address \/ u.address.body = v.address.body) => u = v
    /\ \A u \in walletUsers :
          /\ u.address.case = "lower"
          /\ u.address.prefix = "0x"
          /\ ~u.address.pad
          /\ u.address.len = AddressLength
    /\ \A raw1, raw2 \in RawAddresses :
          (/\ raw1.body = raw2.body
           /\ _normalize_evm_address(raw1) # None
           /\ _normalize_evm_address(raw2) # None)
             => /\ _normalize_evm_address(raw1) = _normalize_evm_address(raw2)
                /\ Registered(walletUsers, _normalize_evm_address(raw1))
                      => UserByAddress(walletUsers, _normalize_evm_address(raw1))
                            = UserByAddress(walletUsers, _normalize_evm_address(raw2))

\* C20 witness: two api_nonce requests were answered for the one row there
\* is, which a mixed-case spelling and the lower-case spelling both resolve to.
OneRowForCaseVariants ==
    /\ Cardinality(walletUsers) = 1
    /\ \E w, v \in Workers :
          /\ w # v
          /\ req[w].kind = "nonce" /\ req[w].status = 200
          /\ req[v].kind = "nonce" /\ req[v].status = 200
          /\ req[w].uid = req[v].uid
          /\ req[w].nonce # req[v].nonce
    /\ \E raw1, raw2 \in NonceAddresses :
          /\ raw1.case = "mixed"
          /\ raw2.case = "lower"
          /\ Registered(walletUsers, _normalize_evm_address(raw1))
          /\ Registered(walletUsers, _normalize_evm_address(raw2))

\* C22: api_logout clears only the session binding.  Its handler step writes
\* nothing and, on a session with no wallet_user_id, answers ok at once; the
\* response step of a logout removes wallet_user_id from the request's
\* session, answers ok, and leaves every other session's binding and every
\* WalletUser row (nonce, last_login) as they were.
LogoutClearsOnlyBinding ==
    [][\A w \in Workers :
          /\ (Free(w) /\ req'[w] # req[w] /\ req'[w].kind = "logout")
                => /\ UNCHANGED <<walletUsers, sessions>>
                   /\ req'[w].pc = "done"
                         => req'[w].status = 200 /\ req'[w].error = ""
          /\ (req[w].pc = "respond" /\ req[w].kind = "logout"
                                    /\ req'[w] # req[w])
                => /\ walletUsers' = walletUsers
                   /\ sessions' = [sessions EXCEPT ![req[w].key] = 0]
                   /\ req'[w].pc = "done"
                   /\ req'[w].status = 200
                   /\ req'[w].error = ""]_vars

\* C22 witness: a logout was answered, no request is in flight, no session is
\* bound any more, and the wallet user that had logged in keeps its
\* last_login.
LoggedOut ==
    /\ \E w \in Workers : req[w].kind = "logout" /\ req[w].pc = "done"
    /\ \A w \in Workers : req[w].pc \in {"idle", "done"}
    /\ \A k \in SessionKeys : sessions[k] = 0
    /\ \E u \in walletUsers : u.last_login # 0

\* The first failing step of a verification in the order: invalid address,
\* unknown address, no nonce, message mismatch, bad signature, address
\* mismatch; "" when no step fails.
FirstFailure(users, rawAddress, rawMessage, signature) ==
    LET address == _normalize_evm_address(rawAddress)
        message == strip(rawMessage)
    IN  IF address = None THEN "invalid address"
        ELSE IF ~Registered(users, address) THEN "unknown address"
        ELSE IF UserByAddress(users, address).nonce = ""
        THEN "no nonce; request /api/auth/nonce first"
        ELSE IF message # _login_message(UserByAddress(users, address).nonce)
        THEN "message mismatch"
        ELSE IF recover_raises(signature) THEN "bad signature"
        ELSE IF address_lower(recover_message(message, signature)) # address
        THEN "address mismatch"
        ELSE ""

\* C24: api_verify reports the first failing step in that order, for every
\* body that carries an address, a message and a signature: "invalid address"
\* for a malformed address, then "unknown address", whatever the message and
\* the signature, and so on.
VerifyReportsFirstFailure ==
    \A rawAddress \in RawAddresses, rawMessage \in Messages,
       signature \in Signatures :
        (rawAddress # None /\ strip(rawMessage) # <<>> /\ signature # NoSignature)
           => api_verify_body(walletUsers, rawAddress, rawMessage, signature).error
                 = FirstFailure(walletUsers, rawAddress, rawMessage, signature)

\* C27: a failed api_verify has no effect.  The step that answers a
\* verification with a failure (status 400, whatever the error) changes no
\* WalletUser row (nonce, last_login) and no session; and in every state in
\* which a verification has failed, every nonce still stored can be verified:
\* its message, signed by the address's key, passes every check.
FailedVerifyHasNoEffect ==
    /\ [][\A w \in Workers :
             (/\ req'[w] # req[w]
              /\ req'[w].kind = "verify"
              /\ req'[w].pc = "done"
              /\ req'[w].status = 400)
                => UNCHANGED <<walletUsers, sessions>>]_vars
    /\ [](\A w \in Workers :
            (req[w].kind = "verify" /\ req[w].pc = "done" /\ req[w].status = 400)
               => \A u \in walletUsers :
                     u.nonce # ""
                        => api_verify_checks(
                              walletUsers, u.address, _login_message(u.nonce),
                              sign(u.address.body, _login_message(u.nonce)))
                              = Checked("", u.id, _login_message(u.nonce)))

\* C27 witness: a verification failed on the signature of another wallet and
\* the only challenge ever issued is still stored.
ChallengeSurvivesFailure ==
    /\ \E w \in Workers : VerifyFailed(w, "address mismatch")
    /\ tokens = 1
    /\ \E u \in walletUsers : u.nonce = token_urlsafe(1)

-----------------------------------------------------------------------------
(* Claims on the wallet login with two identities (SpecAuthTwo) *)

\* C28: authentication soundness.  A session's wallet_user_id changes to an
\* id only in the response of an api_verify of that session that answers ok
\* with that id; an api_verify goes on to log in an identity only when its
\* message is the canonical message of that identity's stored nonce, and the
\* checks pass on such a message only for a signature whose recovered signer
\* is the identity's address; no step of api_nonce changes a session; and the
\* save of a verification leaves the row of every identity with another
\* address as it was.
AuthenticationSoundness ==
    /\ [][\A k \in SessionKeys :
             (sessions'[k] # sessions[k] /\ sessions'[k] # 0)
                => \E w \in Workers :
                      /\ req[w].pc = "respond"
                      /\ req[w].kind = "verify"
                      /\ req[w].status = 200
                      /\ req[w].key = k
                      /\ req[w].uid = sessions'[k]
                      /\ req'[w].pc = "done"]_vars
    /\ [][\A w \in Workers :
             (req[w].pc # "verify_save" /\ req'[w].pc = "verify_save")
                => \E u \in walletUsers :
                      /\ u.id = req'[w].uid
                      /\ u.nonce # ""
                      /\ req'[w].message = _login_message(u.nonce)]_vars
    /\ [](\A u \in walletUsers, n \in Issued, sig \in Signatures :
            api_verify_checks(walletUsers, u.address, _login_message(n), sig).error = ""
               => /\ sig.kind = "sig"
                  /\ address_lower(EvmAddress(sig.key, "mixed")) = u.address)
    /\ [][\A w \in Workers :
             (req'[w] # req[w] /\ req'[w].kind = "nonce")
                => sessions' = sessions]_vars
    /\ [][\A w \in Workers :
             (req[w].pc = "verify_save" /\ req'[w].pc = "respond"
                                       /\ req'[w].status = 200)
                => \A u \in walletUsers :
                      u.id # req[w].uid => u \in walletUsers']_vars

\* C28 witness: the two sessions are bound to two identities, each by its own
\* verification.
TwoSessionsTwoIdentities ==
    /\ \A k \in SessionKeys : sessions[k] # 0
    /\ \E k1, k2 \in SessionKeys : sessions[k1] # sessions[k2]
    /\ \A u \in walletUsers : u.nonce = "" /\ u.last_login # 0

-----------------------------------------------------------------------------
(* Claims on the listing pages (SpecLive) *)

\* The slugs a listing holds.
Listed(projects) == {projects[i] : i \in 1..Len(projects)}

\* C29: the LIVE listing agrees with the gate.  For the campaign table of
\* every state, with every window for its first campaign, and on every day,
\* the campaigns _live_campaigns returns are exactly those whose is_open_now
\* is true, each once; and the step of a listing page puts exactly the
\* campaigns that are open on its day in "projects".
LiveListingIsGate ==
    /\ [](\A a \in Days, b \in Days, d \in Days :
            LET table == [campaigns EXCEPT !["c1"].start = a, !["c1"].end = b]
                projects == _live_campaigns(table, d)
            IN  /\ Listed(projects) = {x \in LiveSlugs : is_open_now(table[x], d)}
                /\ Len(projects) = Cardinality(Listed(projects)))
    /\ [][\A w \in Workers :
             (submitReq[w].pc = "idle" /\ submitReq'[w].pc = "done")
                => Listed(submitReq'[w].projects)
                      = {x \in LiveSlugs : is_open_now(campaigns[x], submitReq'[w].today)}]_vars

\* C29 witness: a page listed the first campaign alone on a day within the
\* windows of both, and the second campaign is published and paused.
PausedCampaignNotListed ==
    \E w \in Workers :
        /\ submitReq[w].pc = "done"
        /\ submitReq[w].projects = <<"c1">>
        /\ campaigns["c2"].start <= submitReq[w].today
        /\ submitReq[w].today <= campaigns["c2"].end
        /\ campaigns["c2"].is_published
        /\ campaigns["c2"].is_paused

-----------------------------------------------------------------------------
(* Claims on language routing (SpecLangFair) *)

\* The paths that start with "/" + lang + "/".
UnderPrefix(path, lang) ==
    Len(path) >= 3 /\ path[1] = "/" /\ path[2] = lang /\ path[3] = "/"

\* C30: language routing never loops.  The middleware redirects only a
\* request to "/", "/rewards/", "/events/" or "/leaderboard/", and only to
\* that path under "/ko", "/ja" or "/zh"; on a request to a path under
\* "/ko/", "/ja/" or "/zh/" it sets the session's lang and request.lang to
\* that prefix and calls the view; the browser never follows more than one
\* redirect; and every request reaches the view.
RoutingNeverLoops ==
    /\ [][(langReq.pc = "request" /\ langReq'.pc # "request")
             => /\ langReq'.pc = "redirect"
                   => /\ langReq.path \in
                            {<<"/">>, <<"/", "rewards", "/">>,
                             <<"/", "events", "/">>, <<"/", "leaderboard", "/">>}
                      /\ \E lang \in {"ko", "ja", "zh"} :
                            langReq'.location = <<"/", lang>> \o langReq.path
                /\ \A lang \in {"ko", "ja", "zh"} :
                      UnderPrefix(langReq.path, lang)
                         => /\ langReq'.pc = "view"
                            /\ langReq'.lang = lang
                            /\ langSession' = lang]_vars
    /\ [](langReq.redirects <= 1)
    /\ <>(langReq.pc = "view")

\* C30 witness: a browser whose session held no language asked for
\* "/rewards/", was redirected once and got the Korean page.
RedirectedOnce ==
    /\ langReq.pc = "view"
    /\ langReq.redirects = 1
    /\ langReq.path = <<"/", "ko", "/", "rewards", "/">>
    /\ langReq.lang = "ko"
    /\ langSession = "ko"

-----------------------------------------------------------------------------
(* Claims on the approval (SpecApprove) *)

\* The columns an approval leaves alone.
SameOtherColumns(old, new) ==
    /\ new.is_paid = old.is_paid
    /\ new.campaign = old.campaign
    /\ new.wallet_address = old.wallet_address
    /\ new.code_entered = old.code_entered

\* C26: mark_approved(reviewer, score, note) on a submission sets status
\* APPROVED, is_approved true, reviewed_at now and reviewed_by the reviewer;
\* sets proof_score only when a score is given; appends a given note after
\* the existing reviewer_note, which stays as its beginning; and leaves
\* is_paid, the payload, wallet_address and campaign unchanged.  Stated for
\* the approval of every row in every reachable state with every argument,
\* and for the save of every approval carried out, which leaves the other
\* columns of the stored row as they are at that moment.
MarkApprovedEffect ==
    /\ [](\A s \in DOMAIN submissions, reviewer \in Reviewers, score \in Scores,
             note \in Notes, now \in Times :
            LET old == submissions[s]
                new == save_update_fields(
                          old, Submission_mark_approved(old, reviewer, score,
                                                        note, now))
                n == Len(old.reviewer_note)
            IN  /\ new.status = APPROVED
                /\ new.is_approved
                /\ new.reviewed_at = now
                /\ reviewer # "" => new.reviewed_by = reviewer
                /\ score # NoScore => new.proof_score = score
                /\ score = NoScore => new.proof_score = old.proof_score
                /\ note = "" => new.reviewer_note = old.reviewer_note
                /\ note # ""
                      => /\ Len(new.reviewer_note) > n
                         /\ SubSeq(new.reviewer_note, 1, n) = old.reviewer_note
                         /\ new.reviewer_note[Len(new.reviewer_note)] = note
                /\ SameOtherColumns(old, new))
    /\ [][\A st \in AdminWorkers :
             (admin[st].pc = "approve" /\ admin'[st].pc # "approve")
                => LET s == admin[st].sub
                   IN  /\ submissions'[s].status = APPROVED
                       /\ submissions'[s].is_approved
                       /\ submissions'[s].reviewed_at \in Times
                       /\ SameOtherColumns(submissions[s], submissions'[s])]_vars

\* C26 witness: an approved submission whose reviewer_note holds two notes,
\* the second after the first, with a score given and is_paid set by staff.
TwoNotesAppended ==
    \E s \in DOMAIN submissions :
        /\ submissions[s].status = APPROVED
        /\ submissions[s].reviewer_note = <<"ok", "\n", "ok">>
        /\ submissions[s].proof_score = 0
        /\ submissions[s].reviewed_by = "staff"
        /\ submissions[s].is_paid

-----------------------------------------------------------------------------
(* Claims on session resolution (SpecSession) *)

\* C23: for every request the resolved wallet user is the WalletUser whose id
\* the session holds if that row exists, and none otherwise; when the id is
\* of a row that no longer exists the request removes wallet_user_id from its
\* session, so that the session is unbound afterwards.  Sessions are
\* otherwise left alone and no step binds one.
SessionResolution ==
    [][/\ \A w \in Workers :
             /\ (Free(w) /\ req'[w] # req[w] /\ req'[w].kind = "page")
                   => \E key \in SessionKeys :
                         LET exists == \E u \in walletUsers : u.id = sessions[key]
                         IN  /\ sessions' = sessions
                             /\ (sessions[key] # 0 /\ exists)
                                   => /\ req'[w].pc = "done"
                                      /\ req'[w].uid = sessions[key]
                             /\ sessions[key] = 0
                                   => req'[w].pc = "done" /\ req'[w].uid = 0
                             /\ (sessions[key] # 0 /\ ~exists)
                                   => /\ req'[w].pc = "respond"
                                      /\ req'[w].key = key
                                      /\ req'[w].uid = 0
             /\ (req[w].pc = "respond" /\ req'[w] # req[w])
                   => /\ sessions' = [sessions EXCEPT ![req[w].key] = 0]
                      /\ req'[w].pc = "done"
                      /\ req'[w].uid = 0
       /\ \A key \in SessionKeys : sessions'[key] \in {sessions[key], 0}]_vars

\* C23 witness: a request on a session whose wallet user was deleted has been
\* answered with no wallet user and that session is unbound, while the other
\* session still resolves to its wallet user.
StaleBindingCleared ==
    \E w \in Workers, key, other \in SessionKeys :
        /\ req[w].kind = "page" /\ req[w].pc = "done" /\ req[w].uid = 0
        /\ sessions[key] = 0
        /\ sessions[other] # 0
        /\ get_wallet_user(sessions, walletUsers, other) = sessions[other]
        /\ Cardinality(walletUsers) = 1

-----------------------------------------------------------------------------
(* Claims on challenge issuance (SpecNonce) *)

\* The characters after the prefix are hexadecimal digits.
IsHex(a) == a.body \in Wallets

\* C21: api_nonce accepts exactly the strings "0x" + 40 hexadecimal
\* characters (after trimming) and for every other input answers 400
\* "invalid address" without creating a WalletUser: so every WalletUser row
\* holds an address of hexadecimal digits.
NonceOnlyForHexAddresses ==
    \A u \in walletUsers : IsHex(u.address)

=============================================================================
